---- MODULE Spec2Model ----
(***************************************************************************)
(* Smart-Notes: the note, category and version tables of src/api/models.py *)
(* and the request handlers of src/api/views.py that read and write them.  *)
(*                                                                         *)
(* Spec      two tenants, one request at a time, every handler one step.   *)
(* SpecNote  one tenant, one request at a time, a longer version history.  *)
(* SpecRem   the reminder classifier over several days.                    *)
(* SpecRace  draft saves and restores cut at their database calls and      *)
(*           interleaved (Django autocommit: every ORM call is its own     *)
(*           transaction).                                                 *)
(* SpecPut   the same for updates and restores.                            *)
(* SpecSum   creates and updates with the summarizer answering or failing. *)
(* SpecBulk  two tenants, the single delete, the two bulk deletes and the  *)
(*           search by category.                                           *)
(* SpecList  one note with a long version history and its listing.         *)
(* SpecMail  the daily reminder e-mail task of src/api/tasks.py.           *)
(* SpecCat   concurrent creates, get_or_create of the category cut at its  *)
(*           two queries.                                                  *)
(***************************************************************************)
EXTENDS Integers, Sequences, FiniteSets, TLC

\* ------------------------------------------------------------------ bounds
\* notes and version rows ever created (Spec, SpecRem)
MaxNotes == 2
MaxVersions == 2
\* notes and version rows ever created by the one tenant (SpecNote)
MaxOwn == 1
MaxHistory == 3
\* the last day
MaxDate == 3
\* workers
MaxProcs == 2
\* version rows of the long history (SpecList), one more than the list returns
MaxLog == 21
\* version rows written at a reading of the clock another row has (SpecList)
MaxTies == 1
\* Category rows (SpecCat)
MaxCats == 3

\* -------------------------------------------------------- program constants
\* a nullable column holding no value (null=True in models.py)
None == 0 - 1
\* VersionHistoryView.get: [:20]
HistoryLimit == 20

Users == {"A", "B"}

VersionableFields ==
    {"title", "content", "tags", "summary", "category", "reminder_date", "is_favorite"}

\* --------------------------------------------------------------- the state
VARIABLES
    notes,          \* Note table: id -> row
    versions,       \* NoteVersion table: id -> row (ids grow with created_at)
    categories,     \* Category table: id -> row
    lastNoteId,     \* the tables' auto-increment sequences
    lastVersionId,
    lastCatId,
    today,          \* timezone.now().date()
    req,            \* the request handled last
    resp,           \* and its response
    procs,          \* SpecRace: the requests in flight
    summaryCalls,   \* the calls of the summarizer by the request handled last
    clock,          \* timezone.now(), kept up to its order with the stored created_at
    sweep           \* the last run of the reminder-email task
vars == <<notes, versions, categories, lastNoteId, lastVersionId, lastCatId,
          today, req, resp, procs, summaryCalls, clock, sweep>>
db == <<notes, versions, categories, lastNoteId, lastVersionId, lastCatId>>

\* ----------------------------------------------------------------- helpers
SetMax(S) == CHOOSE m \in S : \A x \in S : x <= m

\* the ids S in the order of the table
RECURSIVE Ascending(_)
Ascending(S) ==
    IF S = {} THEN <<>>
    ELSE LET first == CHOOSE a \in S : \A b \in S : a <= b
         IN <<first>> \o Ascending(S \ {first})

\* row of table t without key k
Without(t, K) == [k \in DOMAIN t \ K |-> t[k]]

\* dict.get(key, default)
DictGet(data, key, default) == IF key \in DOMAIN data THEN data[key] ELSE default

\* str.lower() over the alphabet of the model
LowerChar(c) == IF c = "A" THEN "a" ELSE IF c = "B" THEN "b" ELSE c
Lower(s) == [i \in 1..Len(s) |-> LowerChar(s[i])]

\* str.strip()
RECURSIVE LStrip(_)
LStrip(s) == IF s # <<>> /\ Head(s) = " " THEN LStrip(Tail(s)) ELSE s
RECURSIVE RStrip(_)
RStrip(s) == IF s # <<>> /\ s[Len(s)] = " " THEN RStrip(SubSeq(s, 1, Len(s) - 1)) ELSE s
Strip(s) == RStrip(LStrip(s))

\* --------------------------------------------------------------- summarizer
\* NoteSerializer._get_openrouter_summary: the service's answer for the
\* content, or the placeholder of the way the call failed.  The outcomes:
\*   ok        the service answered with a summary
\*   no_key    OPENROUTER_API_KEY is not set
\*   request   timeout, network error or HTTP error (RequestException)
\*   format    the answer lacks choices[0].message.content (KeyError, IndexError)
\*   other     any other exception
\*   empty     the service answered with an empty summary
Failures == {"no_key", "request", "format", "other", "empty"}
Outcomes == {"ok"} \cup Failures
Placeholder(outcome) ==
    CASE outcome = "no_key" -> "Summary unavailable: OPENROUTER_API_KEY not set in .env"
      [] outcome = "request" -> "Summary unavailable: OpenRouter API error"
      [] outcome = "format" -> "Summary unavailable: Invalid response format from OpenRouter"
      [] outcome = "other" -> "Summary unavailable"
      [] outcome = "empty" -> "Summary generation returned empty result."
SummaryOf(content) == IF content = "c1" THEN "s1" ELSE IF content = "c2" THEN "s2" ELSE "s0"
GetOpenrouterSummary_EmptyOnFailure(content, ok) ==
    IF ok = "ok" THEN SummaryOf(content) ELSE ""
GetOpenrouterSummary(content, ok) ==
    IF ok = "ok" THEN SummaryOf(content) ELSE Placeholder(ok)

\* ------------------------------------------------------------------ tables
\* Note.objects.get(pk=pk, owner=user): TRUE when the row exists
NoteExists_AnyOwner(pk, user) == pk \in DOMAIN notes
NoteExists(pk, user) == pk \in DOMAIN notes /\ notes[pk].owner = user

\* note.versions: the ids of the note's version rows
VersionsOf(vs, nid) == {v \in DOMAIN vs : vs[v].note = nid}

\* note.versions.count()
VersionCount_LessOne(vs, nid) == Cardinality(VersionsOf(vs, nid)) - 1
VersionCount(vs, nid) == Cardinality(VersionsOf(vs, nid))

\* NoteVersion.note is on_delete=CASCADE: the version table after the notes
\* K are deleted
Cascade_DoNothing(vs, K) == vs
Cascade(vs, K) == Without(vs, UNION {VersionsOf(vs, n) : n \in K})

\* unique_together = ['note', 'version_number']
UniqueTogether_Off(vs, row) == TRUE
UniqueTogether(vs, row) ==
    \A v \in DOMAIN vs :
        ~(vs[v].note = row.note /\ vs[v].version_number = row.version_number)

\* the foreign key NoteVersion.category -> Category
CategoryFkOk(cats, row) == row.category = None \/ row.category \in DOMAIN cats

\* Category.objects.get_or_create(name=name, owner=user): the row's id, and
\* the table afterwards
CategoryMatches(cats, name, user) ==
    {c \in DOMAIN cats : cats[c].name = name /\ cats[c].owner = user}
GetOrCreateId(cats, last, name, user) ==
    IF CategoryMatches(cats, name, user) # {}
    THEN CHOOSE c \in CategoryMatches(cats, name, user) : TRUE
    ELSE last + 1
GetOrCreateTable(cats, last, name, user) ==
    IF CategoryMatches(cats, name, user) # {}
    THEN cats
    ELSE cats @@ ((last + 1) :> [name |-> name, owner |-> user])

\* --------------------------------------------------------------- responses
Response(status, message, data) == [status |-> status, message |-> message, data |-> data]
NoteNotFound == Response(404, "Note not found", <<>>)
VersionNotFound == Response(404, "Version not found", <<>>)
\* an exception no handler catches (IntegrityError): Django's 500 page
ServerError == Response(500, "Server Error", <<>>)

Request(op, user, pk, vid, data) ==
    [op |-> op, user |-> user, pk |-> pk, vid |-> vid, data |-> data]

\* NoteSerializer(note).data
NoteData(pk, row) == [id |-> pk] @@ row
\* NoteVersionSerializer(version).data
VersionData(vid, row) == [id |-> vid] @@ row

\* ----------------------------------------------------------- NoteSerializer
RequiredFields == {"title", "category", "tags", "content"}

\* validate_category: the payload is usable when it is a dict with a name
CategoryFormatOk(value) == "name" \in DOMAIN value
CategoryName(value) == Lower(Strip(value.name))

\* validate_reminder_date
ReminderDateOk(value, now) == ~(value # None /\ value < now)

\* serializer.errors: the fields of the payload that fail validation
Errors(data, partial, now) ==
    {f \in RequiredFields : ~partial /\ f \notin DOMAIN data}
    \cup {f \in DOMAIN data :
            \/ f = "category" /\ ~CategoryFormatOk(data[f])
            \/ f = "reminder_date" /\ ~ReminderDateOk(data[f], now)
            \/ f = "content" /\ data[f] = ""}

\* is_valid() runs validate_category on every payload with a well-formed
\* category, whatever the other fields: the Category table after validation
HasCategory(data) == "category" \in DOMAIN data /\ CategoryFormatOk(data.category)
ValidatedCategories(cats, last, data, user) ==
    IF HasCategory(data)
    THEN GetOrCreateTable(cats, last, CategoryName(data.category), user)
    ELSE cats
ValidatedCategoryId(cats, last, data, user) ==
    GetOrCreateId(cats, last, CategoryName(data.category), user)
ValidatedLastCatId(cats, last, data, user) ==
    SetMax({last} \cup DOMAIN ValidatedCategories(cats, last, data, user))

\* NoteSerializer.create: the row written for a valid payload
CreatedNote(data, user, cat, ok) ==
    [owner |-> user,
     title |-> data.title,
     content |-> data.content,
     tags |-> data.tags,
     summary |-> IF data.content # "" THEN GetOpenrouterSummary(data.content, ok) ELSE "",
     category |-> cat,
     reminder_date |-> DictGet(data, "reminder_date", None),
     is_favorite |-> DictGet(data, "is_favorite", FALSE)]

\* NoteSerializer.create: the summarizer is called for content that is not empty
SummaryCall(content, ok) == [content |-> content, outcome |-> ok]
CreateCalls(data, ok) ==
    IF data.content # "" THEN <<SummaryCall(data.content, ok)>> ELSE <<>>

\* NoteSerializer.update: the summary is recomputed only for new content
ContentChanges_Present(instance, data) == "content" \in DOMAIN data
ContentChanges(instance, data) ==
    "content" \in DOMAIN data /\ data.content # instance.content
UpdateCalls(instance, data, ok) ==
    IF ContentChanges(instance, data) THEN <<SummaryCall(data.content, ok)>> ELSE <<>>
UpdatedNote(instance, data, cat, ok) ==
    [owner |-> instance.owner,
     title |-> DictGet(data, "title", instance.title),
     content |-> DictGet(data, "content", instance.content),
     tags |-> DictGet(data, "tags", instance.tags),
     summary |-> IF ContentChanges(instance, data)
                 THEN GetOpenrouterSummary(data.content, ok)
                 ELSE DictGet(data, "summary", instance.summary),
     category |-> IF "category" \in DOMAIN data THEN cat ELSE instance.category,
     reminder_date |-> DictGet(data, "reminder_date", instance.reminder_date),
     is_favorite |-> DictGet(data, "is_favorite", instance.is_favorite)]

\* -------------------------------------------------------------- NoteVersion
\* DraftView.post: the row handed to NoteVersion.objects.create
DraftRow_OverlaysLastVersion(nid, note, data, next_version) ==
    LET base == IF VersionsOf(versions, nid) # {}
                THEN versions[SetMax(VersionsOf(versions, nid))]
                ELSE note
    IN [note |-> nid,
        title |-> DictGet(data, "title", base.title),
        content |-> DictGet(data, "content", base.content),
        tags |-> DictGet(data, "tags", base.tags),
        summary |-> DictGet(data, "summary", base.summary),
        category |-> DictGet(data, "category_id", base.category),
        reminder_date |-> DictGet(data, "reminder_date", base.reminder_date),
        is_favorite |-> DictGet(data, "is_favorite", base.is_favorite),
        version_number |-> next_version,
        created_at |-> clock,
        is_draft |-> TRUE]
DraftRow(nid, note, data, next_version) ==
    [note |-> nid,
     title |-> DictGet(data, "title", note.title),
     content |-> DictGet(data, "content", note.content),
     tags |-> DictGet(data, "tags", note.tags),
     summary |-> DictGet(data, "summary", note.summary),
     category |-> DictGet(data, "category_id", note.category),
     reminder_date |-> DictGet(data, "reminder_date", note.reminder_date),
     is_favorite |-> DictGet(data, "is_favorite", note.is_favorite),
     version_number |-> next_version,
     created_at |-> clock,
     is_draft |-> TRUE]

\* VersionHistoryView.post: the fields copied from the version onto the note
RestoredNote_KeepFavorite(note, version) ==
    [owner |-> note.owner,
     title |-> version.title,
     content |-> version.content,
     tags |-> version.tags,
     summary |-> version.summary,
     category |-> version.category,
     reminder_date |-> version.reminder_date,
     is_favorite |-> note.is_favorite]
RestoredNote(note, version) ==
    [owner |-> note.owner,
     title |-> version.title,
     content |-> version.content,
     tags |-> version.tags,
     summary |-> version.summary,
     category |-> version.category,
     reminder_date |-> version.reminder_date,
     is_favorite |-> version.is_favorite]

\* VersionHistoryView.post: the row created after the restore; it names
\* title and content only, the other columns take the model's defaults
RestoreRow(nid, note, next_version) ==
    [note |-> nid,
     title |-> note.title,
     content |-> note.content,
     tags |-> <<>>,
     summary |-> "",
     category |-> None,
     reminder_date |-> None,
     is_favorite |-> FALSE,
     version_number |-> next_version,
     created_at |-> clock,
     is_draft |-> FALSE]

\* NoteVersion.objects.create succeeds when the constraints of the table hold
InsertOk(vs, cats, row) == UniqueTogether(vs, row) /\ CategoryFkOk(cats, row)

\* NoteVersion.objects.get(id=version_id, note_id=note_id, note__owner=user)
VersionExists_AnyNote(vid, nid, user) ==
    /\ vid \in DOMAIN versions
    /\ versions[vid].note \in DOMAIN notes
    /\ notes[versions[vid].note].owner = user
VersionExists(vid, nid, user) ==
    /\ vid \in DOMAIN versions
    /\ versions[vid].note = nid
    /\ versions[vid].note \in DOMAIN notes
    /\ notes[versions[vid].note].owner = user

\* a reading of the clock later than every stored created_at
Later(vs) == 1 + SetMax({0} \cup {vs[v].created_at : v \in DOMAIN vs})

\* versions.order_by('-created_at'): the orders of the ids S the database may
\* answer with, newest first; rows of equal created_at come in any order
RECURSIVE NewestFirst(_, _)
NewestFirst(vs, S) ==
    IF S = {} THEN {<<>>}
    ELSE LET top == {v \in S : \A w \in S : vs[w].created_at <= vs[v].created_at}
         IN UNION {{<<v>> \o rest : rest \in NewestFirst(vs, S \ {v})} : v \in top}

\* [:20]
Limit(seq, n) == SubSeq(seq, 1, IF Len(seq) < n THEN Len(seq) ELSE n)

\* ------------------------------------------------------- reminder classifier
\* ReminderView.get: the owner's notes that carry a reminder date
NotesWithReminders_AnyOwner(user) ==
    {n \in DOMAIN notes : notes[n].reminder_date # None}
NotesWithReminders(user) ==
    {n \in DOMAIN notes : notes[n].owner = user /\ notes[n].reminder_date # None}

Tomorrow(now) == now + 1

Todays(user, now) ==
    {n \in NotesWithReminders(user) : notes[n].reminder_date = now}
Tomorrows(user, now) ==
    {n \in NotesWithReminders(user) : notes[n].reminder_date = Tomorrow(now)}
Overdues(user, now) ==
    {n \in NotesWithReminders(user) : notes[n].reminder_date < now}
Scheduleds_FromToday(user, now) ==
    {n \in NotesWithReminders(user) : notes[n].reminder_date > now}
Scheduleds(user, now) ==
    {n \in NotesWithReminders(user) : notes[n].reminder_date > Tomorrow(now)}

\* order_by('reminder_date', 'created_at'): ids grow with created_at
Earlier(a, b) ==
    \/ notes[a].reminder_date < notes[b].reminder_date
    \/ notes[a].reminder_date = notes[b].reminder_date /\ a <= b
RECURSIVE OrderByReminder(_)
OrderByReminder(S) ==
    IF S = {} THEN <<>>
    ELSE LET first == CHOOSE a \in S : \A b \in S : Earlier(a, b)
         IN <<NoteData(first, notes[first])>> \o OrderByReminder(S \ {first})

\* ------------------------------------------------------------------ inputs
NoData == <<>>
NoteIds == 1..MaxNotes

CategoryNames == {<<" ", "A">>}

BasePayload == [title |-> "t1", content |-> "c1", tags |-> <<"x">>]

CreatePayloads ==
    {BasePayload @@ [category |-> [name |-> n]] : n \in CategoryNames}
    \cup {BasePayload @@ [category |-> [name |-> <<"a">>], reminder_date |-> 0]}

UpdatePayloads == {[content |-> "c2"]}
EditPayloads == UpdatePayloads \cup {[title |-> "t3"]}

\* the draft of the two-tenant specification: a category by its id
TenantDrafts == {[category_id |-> 1]}
\* the draft of the interleaved specification
RaceDrafts == {[title |-> "t2"]}

DraftPayloads ==
    {[category_id |-> 1],
     [title |-> "t2", tags |-> <<"y">>, summary |-> "client", reminder_date |-> 0,
      is_favorite |-> TRUE]}

\* updates that change the content, resubmit it, leave it out, and send a
\* summary along with new content
SummaryUpdates ==
    {[content |-> "c2"], [content |-> "c1"], [title |-> "t3"],
     [content |-> "c2", summary |-> "client"]}

\* the note of the long history
ListCreates == {BasePayload @@ [category |-> [name |-> <<"a">>]]}

\* the path parameters of the bulk deletes
BulkCategories == {<<"A">>}
BulkTags == {"x"}

ReminderPayloads ==
    {BasePayload @@ [category |-> [name |-> <<"a">>], reminder_date |-> d] :
        d \in {None} \cup 0..MaxDate}

\* no run of the reminder-email task yet
NoSweep == [log |-> <<>>, raised |-> FALSE, ran |-> FALSE]

\* the response is sent and the worker takes the next request
NoRequest == Request("none", "A", 0, 0, NoData)
NoResponse == Response(0, "", <<>>)
Idle == req = NoRequest
Respond ==
    /\ ~Idle
    /\ req' = NoRequest
    /\ resp' = NoResponse
    /\ summaryCalls' = <<>>
    /\ clock' = Later(versions)
    /\ UNCHANGED <<db, today, sweep, procs>>

\* the response is sent and the next request is handled at the same reading
\* of the clock: timezone.now() is the wall clock, which another worker reads
\* at the same time and which may be set back
RespondSameInstant ==
    /\ ~Idle
    /\ req' = NoRequest
    /\ resp' = NoResponse
    /\ summaryCalls' = <<>>
    /\ UNCHANGED <<db, today, clock, sweep, procs>>

\* ---------------------------------------------------------------- handlers
\* CreateNoteView.post
CreateNote_RecordsVersion(user, data, ok) ==
    LET errs == Errors(data, FALSE, today)
        cat == ValidatedCategoryId(categories, lastCatId, data, user)
        row == CreatedNote(data, user, cat, ok)
    IN /\ req' = Request("create", user, 0, 0, data)
       /\ categories' = ValidatedCategories(categories, lastCatId, data, user)
       /\ lastCatId' = ValidatedLastCatId(categories, lastCatId, data, user)
       /\ IF errs = {}
          THEN /\ notes' = notes @@ ((lastNoteId + 1) :> row)
               /\ lastNoteId' = lastNoteId + 1
               /\ versions' = versions @@
                     ((lastVersionId + 1) :> DraftRow(lastNoteId + 1, row, NoData, 1))
               /\ lastVersionId' = lastVersionId + 1
               /\ summaryCalls' = CreateCalls(data, ok)
               /\ resp' = Response(201, "", <<NoteData(lastNoteId + 1, row)>>)
          ELSE /\ resp' = Response(400, "", errs)
               /\ UNCHANGED <<notes, lastNoteId, versions, lastVersionId, summaryCalls>>
       /\ UNCHANGED <<today, clock, sweep, procs>>
CreateNote(user, data, ok) ==
    LET errs == Errors(data, FALSE, today)
        cat == ValidatedCategoryId(categories, lastCatId, data, user)
        row == CreatedNote(data, user, cat, ok)
    IN /\ req' = Request("create", user, 0, 0, data)
       /\ categories' = ValidatedCategories(categories, lastCatId, data, user)
       /\ lastCatId' = ValidatedLastCatId(categories, lastCatId, data, user)
       /\ IF errs = {}
          THEN /\ notes' = notes @@ ((lastNoteId + 1) :> row)
               /\ lastNoteId' = lastNoteId + 1
               /\ summaryCalls' = CreateCalls(data, ok)
               /\ resp' = Response(201, "", <<NoteData(lastNoteId + 1, row)>>)
          ELSE /\ resp' = Response(400, "", errs)
               /\ UNCHANGED <<notes, lastNoteId, summaryCalls>>
       /\ UNCHANGED <<versions, lastVersionId, today, clock, sweep, procs>>

\* NoteDetailView.get
GetNote(user, pk) ==
    /\ req' = Request("get", user, pk, 0, NoData)
    /\ resp' = IF NoteExists(pk, user)
               THEN Response(200, "success", <<NoteData(pk, notes[pk])>>)
               ELSE NoteNotFound
    /\ UNCHANGED <<db, today, clock, sweep, procs, summaryCalls>>

\* NoteDetailView.put
UpdateNote(user, pk, data, ok) ==
    /\ req' = Request("put", user, pk, 0, data)
    /\ IF ~NoteExists(pk, user)
       THEN /\ resp' = NoteNotFound
            /\ UNCHANGED <<db, summaryCalls>>
       ELSE LET errs == Errors(data, TRUE, today)
                cat == ValidatedCategoryId(categories, lastCatId, data, user)
                row == UpdatedNote(notes[pk], data, cat, ok)
            IN /\ categories' = ValidatedCategories(categories, lastCatId, data, user)
               /\ lastCatId' = ValidatedLastCatId(categories, lastCatId, data, user)
               /\ IF errs = {}
                  THEN /\ notes' = [notes EXCEPT ![pk] = row]
                       /\ summaryCalls' = UpdateCalls(notes[pk], data, ok)
                       /\ resp' = Response(200, "", <<NoteData(pk, row)>>)
                  ELSE /\ resp' = Response(400, "", errs)
                       /\ UNCHANGED <<notes, summaryCalls>>
               /\ UNCHANGED <<versions, lastNoteId, lastVersionId>>
    /\ UNCHANGED <<today, clock, sweep, procs>>

\* NoteDetailView.delete; NoteVersion.note is on_delete=CASCADE
DeleteNote(user, pk) ==
    /\ req' = Request("delete", user, pk, 0, NoData)
    /\ IF NoteExists(pk, user)
       THEN /\ notes' = Without(notes, {pk})
            /\ versions' = Cascade(versions, {pk})
            /\ resp' = Response(204, "Note deleted successfully", <<>>)
       ELSE /\ resp' = NoteNotFound
            /\ UNCHANGED <<notes, versions>>
    /\ UNCHANGED <<categories, lastNoteId, lastVersionId, lastCatId, today, clock, sweep, procs, summaryCalls>>

\* category__name__icontains: q occurs in s, whatever the case
IContains(s, q) ==
    \E i \in 0..(Len(s) - Len(q)) : Lower(SubSeq(s, i + 1, i + Len(q))) = Lower(q)

\* Note.objects.filter(category__name__icontains=category,
\*                     category__owner=request.user)
NotesOfCategory(user, q) ==
    {n \in DOMAIN notes :
        /\ notes[n].category # None
        /\ notes[n].category \in DOMAIN categories
        /\ IContains(categories[notes[n].category].name, q)
        /\ categories[notes[n].category].owner = user}

\* Note.objects.filter(tags__contains=[tag], owner=request.user)
NotesOfTag(user, tag) ==
    {n \in DOMAIN notes :
        /\ notes[n].owner = user
        /\ \E i \in DOMAIN notes[n].tags : notes[n].tags[i] = tag}

\* the bulk deletes: the matching notes go with their versions; when none
\* matches the view returns no response at all, which the framework turns
\* into an error
BulkDelete(matches) ==
    IF matches # {}
    THEN /\ notes' = Without(notes, matches)
         /\ versions' = Cascade(versions, matches)
         /\ resp' = Response(204, "Note deleted successfully", <<>>)
    ELSE /\ resp' = ServerError
         /\ UNCHANGED <<notes, versions>>

\* NoteCategorySearchView.delete
DeleteByCategory(user, q) ==
    /\ req' = Request("delete_category", user, 0, 0, [category |-> q])
    /\ BulkDelete(NotesOfCategory(user, q))
    /\ UNCHANGED <<categories, lastNoteId, lastVersionId, lastCatId, today, clock, sweep, procs,
                   summaryCalls>>

\* NoteCategorySearchView.get
SearchByCategory(user, q) ==
    /\ req' = Request("search_category", user, 0, 0, [category |-> q])
    /\ resp' = LET ids == Ascending(NotesOfCategory(user, q))
               IN Response(200, "success",
                           [i \in 1..Len(ids) |-> NoteData(ids[i], notes[ids[i]])])
    /\ UNCHANGED <<db, today, clock, sweep, procs, summaryCalls>>

\* NoteTagSearchView.delete
DeleteByTag(user, tag) ==
    /\ req' = Request("delete_tag", user, 0, 0, [tag |-> tag])
    /\ BulkDelete(NotesOfTag(user, tag))
    /\ UNCHANGED <<categories, lastNoteId, lastVersionId, lastCatId, today, clock, sweep, procs,
                   summaryCalls>>

\* DraftView.post: the version row written and the response
DraftOutcome(user, nid, data) ==
    /\ req' = Request("draft", user, nid, 0, data)
    /\ IF nid = 0
       THEN /\ resp' = Response(400, "Note ID required for drafts", <<>>)
            /\ UNCHANGED <<versions, lastVersionId>>
       ELSE IF ~NoteExists(nid, user)
       THEN /\ resp' = NoteNotFound
            /\ UNCHANGED <<versions, lastVersionId>>
       ELSE LET row == DraftRow(nid, notes[nid], data, VersionCount(versions, nid) + 1)
            IN IF InsertOk(versions, categories, row)
               THEN /\ versions' = versions @@ ((lastVersionId + 1) :> row)
                    /\ lastVersionId' = lastVersionId + 1
                    /\ resp' = Response(201, "success",
                                        <<VersionData(lastVersionId + 1, row)>>)
               ELSE /\ resp' = ServerError
                    /\ UNCHANGED <<versions, lastVersionId>>

\* DraftView.post: no other table is written
SaveDraft_SavesNote(user, nid, data) ==
    /\ DraftOutcome(user, nid, data)
    /\ notes' = IF nid # 0 /\ NoteExists(nid, user)
                THEN [notes EXCEPT ![nid].title = DictGet(data, "title", @)]
                ELSE notes
    /\ UNCHANGED <<categories, lastNoteId, lastCatId, today, clock, sweep, procs, summaryCalls>>
SaveDraft(user, nid, data) ==
    /\ DraftOutcome(user, nid, data)
    /\ UNCHANGED <<notes, categories, lastNoteId, lastCatId, today, clock, sweep, procs, summaryCalls>>

\* VersionHistoryView.get
ListVersions(user, nid) ==
    /\ req' = Request("versions", user, nid, 0, NoData)
    /\ IF NoteExists(nid, user)
       THEN \E order \in NewestFirst(versions, VersionsOf(versions, nid)) :
               LET ids == Limit(order, HistoryLimit)
               IN resp' = Response(200, "success",
                            [i \in 1..Len(ids) |-> VersionData(ids[i], versions[ids[i]])])
       ELSE resp' = NoteNotFound
    /\ UNCHANGED <<db, today, clock, sweep, procs, summaryCalls>>

\* VersionHistoryView.post; the note written is version.note
RestoreVersion_ConsumesVersion(user, nid, vid) ==
    /\ req' = Request("restore", user, nid, vid, NoData)
    /\ IF ~VersionExists(vid, nid, user)
       THEN /\ resp' = VersionNotFound
            /\ UNCHANGED <<notes, versions, lastVersionId>>
       ELSE LET target == versions[vid].note
                note == RestoredNote(notes[target], versions[vid])
                row == RestoreRow(target, note, VersionCount(versions, target))
                kept == Without(versions, {vid})
            IN /\ notes' = [notes EXCEPT ![target] = note]
               /\ versions' = kept @@ ((lastVersionId + 1) :> row)
               /\ lastVersionId' = lastVersionId + 1
               /\ resp' = Response(200, "Version restored", <<>>)
    /\ UNCHANGED <<categories, lastNoteId, lastCatId, today, clock, sweep, procs, summaryCalls>>
RestoreVersion(user, nid, vid) ==
    /\ req' = Request("restore", user, nid, vid, NoData)
    /\ IF ~VersionExists(vid, nid, user)
       THEN /\ resp' = VersionNotFound
            /\ UNCHANGED <<notes, versions, lastVersionId>>
       ELSE LET target == versions[vid].note
                note == RestoredNote(notes[target], versions[vid])
                row == RestoreRow(target, note, VersionCount(versions, target) + 1)
            IN /\ notes' = [notes EXCEPT ![target] = note]
               /\ IF InsertOk(versions, categories, row)
                  THEN /\ versions' = versions @@ ((lastVersionId + 1) :> row)
                       /\ lastVersionId' = lastVersionId + 1
                       /\ resp' = Response(200, "Version restored", <<>>)
                  ELSE /\ resp' = ServerError
                       /\ UNCHANGED <<versions, lastVersionId>>
    /\ UNCHANGED <<categories, lastNoteId, lastCatId, today, clock, sweep, procs, summaryCalls>>

\* ReminderView.get
GetReminders(user) ==
    /\ req' = Request("reminders", user, 0, 0, NoData)
    /\ resp' = Response(200, "",
                 [todays |-> OrderByReminder(Todays(user, today)),
                  tomorrows |-> OrderByReminder(Tomorrows(user, today)),
                  overdues |-> OrderByReminder(Overdues(user, today)),
                  scheduleds |-> OrderByReminder(Scheduleds(user, today))])
    /\ UNCHANGED <<db, today, clock, sweep, procs, summaryCalls>>

\* ------------------------------------------------------ reminder-email task
\* Note.objects.filter(reminder_date=datetime.now(timezone.utc).date()), the
\* notes of every owner, in the order of the table
DueToday == {n \in DOMAIN notes : notes[n].reminder_date = today}
\* send_email: the loop over the notes; send_mail fails for the notes in
\* failing, and the except clause logs the error and goes on
RECURSIVE SweepLoop_AbortsOnFailure(_, _, _)
SweepLoop_AbortsOnFailure(todo, failing, log) ==
    IF todo = <<>> THEN [log |-> log, raised |-> FALSE, ran |-> TRUE]
    ELSE LET n == Head(todo)
             entry == [note |-> n, to |-> notes[n].owner, sent |-> n \notin failing]
         IN IF n \in failing
            THEN [log |-> Append(log, entry), raised |-> TRUE, ran |-> TRUE]
            ELSE SweepLoop_AbortsOnFailure(Tail(todo), failing, Append(log, entry))
RECURSIVE SweepLoop(_, _, _)
SweepLoop(todo, failing, log) ==
    IF todo = <<>> THEN [log |-> log, raised |-> FALSE, ran |-> TRUE]
    ELSE LET n == Head(todo)
             entry == [note |-> n, to |-> notes[n].owner, sent |-> n \notin failing]
         IN SweepLoop(Tail(todo), failing, Append(log, entry))

\* send_email, one run of the task
SendEmail(failing) ==
    /\ sweep' = SweepLoop(Ascending(DueToday), failing, <<>>)
    /\ UNCHANGED <<db, today, req, resp, procs, summaryCalls, clock>>

\* midnight: timezone.now().date() moves on
Tick ==
    /\ Idle
    /\ today < MaxDate
    /\ today' = today + 1
    /\ UNCHANGED <<db, req, resp, procs, summaryCalls, clock, sweep>>

\* ------------------------------------------- the handlers, query by query
\* Each worker runs one request; every ORM call is a step of its own.
Procs == 1..MaxProcs
IdleProc == [pc |-> "idle"]
Done(status) == [pc |-> "done", status |-> status]

\* DraftView.post: Note.objects.get
DraftLoad(p, user, nid, data) ==
    /\ procs[p].pc = "idle"
    /\ procs' = [procs EXCEPT ![p] =
                    IF nid = 0 THEN Done(400)
                    ELSE IF ~NoteExists(nid, user) THEN Done(404)
                    ELSE [pc |-> "draft_count", nid |-> nid, data |-> data,
                          note |-> notes[nid]]]
    /\ UNCHANGED <<db, today, clock, sweep, req, resp, summaryCalls>>

\* DraftView.post: note.versions.count() + 1
DraftCount(p) ==
    /\ procs[p].pc = "draft_count"
    /\ procs' = [procs EXCEPT ![p] =
                    [pc |-> "draft_create", nid |-> procs[p].nid, data |-> procs[p].data,
                     note |-> procs[p].note,
                     next_version |-> VersionCount(versions, procs[p].nid) + 1]]
    /\ UNCHANGED <<db, today, clock, sweep, req, resp, summaryCalls>>

\* DraftView.post: NoteVersion.objects.create
DraftCreate(p) ==
    /\ procs[p].pc = "draft_create"
    /\ LET row == DraftRow(procs[p].nid, procs[p].note, procs[p].data,
                           procs[p].next_version)
       IN IF InsertOk(versions, categories, row)
          THEN /\ versions' = versions @@ ((lastVersionId + 1) :> row)
               /\ lastVersionId' = lastVersionId + 1
               /\ procs' = [procs EXCEPT ![p] = Done(201)]
          ELSE /\ procs' = [procs EXCEPT ![p] = Done(500)]
               /\ UNCHANGED <<versions, lastVersionId>>
    /\ UNCHANGED <<notes, categories, lastNoteId, lastCatId, today, clock, sweep, req, resp, summaryCalls>>

\* VersionHistoryView.post: NoteVersion.objects.get and version.note
\* (before: the note's row as the request found it)
RestoreLoad(p, user, nid, vid) ==
    /\ procs[p].pc = "idle"
    /\ procs' = [procs EXCEPT ![p] =
                    IF ~VersionExists(vid, nid, user) THEN Done(404)
                    ELSE [pc |-> "restore_save", nid |-> versions[vid].note,
                          before |-> notes[versions[vid].note],
                          note |-> RestoredNote(notes[versions[vid].note], versions[vid])]]
    /\ UNCHANGED <<db, today, clock, sweep, req, resp, summaryCalls>>

\* VersionHistoryView.post: note.save() writes every column of the row
RestoreSave(p) ==
    /\ procs[p].pc = "restore_save"
    /\ notes' = [notes EXCEPT ![procs[p].nid] = procs[p].note]
    /\ procs' = [procs EXCEPT ![p] =
                    [pc |-> "restore_count", nid |-> procs[p].nid,
                     before |-> procs[p].before, note |-> procs[p].note]]
    /\ UNCHANGED <<versions, categories, lastNoteId, lastVersionId, lastCatId,
                   today, clock, sweep, req, resp, summaryCalls>>

\* VersionHistoryView.post: note.versions.count() + 1
RestoreCount(p) ==
    /\ procs[p].pc = "restore_count"
    /\ procs' = [procs EXCEPT ![p] =
                    [pc |-> "restore_create", nid |-> procs[p].nid,
                     before |-> procs[p].before, note |-> procs[p].note,
                     next_version |-> VersionCount(versions, procs[p].nid) + 1]]
    /\ UNCHANGED <<db, today, clock, sweep, req, resp, summaryCalls>>

\* VersionHistoryView.post: NoteVersion.objects.create
RestoreCreate(p) ==
    /\ procs[p].pc = "restore_create"
    /\ LET row == RestoreRow(procs[p].nid, procs[p].note, procs[p].next_version)
       IN IF InsertOk(versions, categories, row)
          THEN /\ versions' = versions @@ ((lastVersionId + 1) :> row)
               /\ lastVersionId' = lastVersionId + 1
               /\ procs' = [procs EXCEPT ![p] = Done(200)]
          ELSE /\ procs' = [procs EXCEPT ![p] = Done(500)]
               /\ UNCHANGED <<versions, lastVersionId>>
    /\ UNCHANGED <<notes, categories, lastNoteId, lastCatId, today, clock, sweep, req, resp, summaryCalls>>

\* NoteDetailView.put: Note.objects.get
PutLoad(p, user, pk, data) ==
    /\ procs[p].pc = "idle"
    /\ procs' = [procs EXCEPT ![p] =
                    IF ~NoteExists(pk, user) THEN Done(404)
                    ELSE [pc |-> "put_save", nid |-> pk, data |-> data, note |-> notes[pk]]]
    /\ UNCHANGED <<db, today, clock, sweep, req, resp, summaryCalls>>

\* NoteDetailView.put: serializer.save() sets the payload's fields on the
\* instance loaded before and writes every column of the row
PutSave(p) ==
    /\ procs[p].pc = "put_save"
    /\ notes' = [notes EXCEPT ![procs[p].nid] =
                    UpdatedNote(procs[p].note, procs[p].data, procs[p].note.category, "ok")]
    /\ summaryCalls' = UpdateCalls(procs[p].note, procs[p].data, "ok")
    /\ procs' = [procs EXCEPT ![p] = Done(200)]
    /\ UNCHANGED <<versions, categories, lastNoteId, lastVersionId, lastCatId,
                   today, clock, sweep, req, resp>>

\* CreateNoteView.post, is_valid(): validate_category runs the lookup of
\* Category.objects.get_or_create(name=category_name, owner=user)
CategoryGet(p, user, data) ==
    /\ procs[p].pc = "idle"
    /\ procs' = [procs EXCEPT ![p] =
                    LET matches == CategoryMatches(categories, CategoryName(data.category), user)
                    IN IF Cardinality(matches) > 1 THEN Done(500)
                       ELSE IF matches = {}
                       THEN [pc |-> "category_create", user |-> user, data |-> data]
                       ELSE [pc |-> "note_create", user |-> user, data |-> data,
                             category |-> CHOOSE c \in matches : TRUE]]
    /\ UNCHANGED <<db, today, clock, sweep, req, resp, summaryCalls>>

\* get_or_create: the lookup found no row, the row is inserted
CategoryCreate(p) ==
    /\ procs[p].pc = "category_create"
    /\ categories' = categories @@
           ((lastCatId + 1) :> [name |-> CategoryName(procs[p].data.category),
                                owner |-> procs[p].user])
    /\ lastCatId' = lastCatId + 1
    /\ procs' = [procs EXCEPT ![p] =
                    [pc |-> "note_create", user |-> procs[p].user, data |-> procs[p].data,
                     category |-> lastCatId + 1]]
    /\ UNCHANGED <<notes, versions, lastNoteId, lastVersionId,
                   today, clock, sweep, req, resp, summaryCalls>>

\* CreateNoteView.post: serializer.save() of a valid payload, or the 400
NoteCreate(p) ==
    /\ procs[p].pc = "note_create"
    /\ IF Errors(procs[p].data, FALSE, today) = {}
       THEN /\ notes' = notes @@ ((lastNoteId + 1) :>
                    CreatedNote(procs[p].data, procs[p].user, procs[p].category, "ok"))
            /\ lastNoteId' = lastNoteId + 1
            /\ procs' = [procs EXCEPT ![p] = Done(201)]
       ELSE /\ procs' = [procs EXCEPT ![p] = Done(400)]
            /\ UNCHANGED <<notes, lastNoteId>>
    /\ UNCHANGED <<versions, categories, lastVersionId, lastCatId,
                   today, clock, sweep, req, resp, summaryCalls>>

\* the response is sent; the worker is free again
Finish(p) ==
    /\ procs[p].pc = "done"
    /\ procs' = [procs EXCEPT ![p] = IdleProc]
    /\ summaryCalls' = <<>>
    /\ clock' = Later(versions)
    /\ UNCHANGED <<db, today, sweep, req, resp>>

\* ------------------------------------------------------------ specifications
Init ==
    /\ notes = <<>>
    /\ versions = <<>>
    /\ categories = <<>>
    /\ lastNoteId = 0
    /\ lastVersionId = 0
    /\ lastCatId = 0
    /\ today = 1
    /\ req = NoRequest
    /\ resp = NoResponse
    /\ procs = [p \in Procs |-> IdleProc]
    /\ summaryCalls = <<>>
    /\ clock = 1
    /\ sweep = NoSweep

\* the tables stay within the bounds of the model
Bounded(maxNotes, maxVersions) ==
    lastNoteId' <= maxNotes /\ lastVersionId' <= maxVersions

\* two tenants, one request at a time
Next ==
    \/ \E u \in Users, d \in CreatePayloads :
          Idle /\ CreateNote(u, d, "ok") /\ Bounded(MaxNotes, MaxVersions)
    \/ \E u \in Users, pk \in NoteIds :
          Idle /\ GetNote(u, pk) /\ Bounded(MaxNotes, MaxVersions)
    \/ \E u \in Users, pk \in NoteIds, d \in UpdatePayloads :
          Idle /\ UpdateNote(u, pk, d, "ok") /\ Bounded(MaxNotes, MaxVersions)
    \/ \E u \in Users, pk \in NoteIds :
          Idle /\ DeleteNote(u, pk) /\ Bounded(MaxNotes, MaxVersions)
    \/ \E u \in Users, nid \in 0..MaxNotes, d \in TenantDrafts :
          Idle /\ SaveDraft(u, nid, d) /\ Bounded(MaxNotes, MaxVersions)
    \/ \E u \in Users, nid \in NoteIds :
          Idle /\ ListVersions(u, nid) /\ Bounded(MaxNotes, MaxVersions)
    \/ \E u \in Users, nid \in NoteIds, vid \in 1..MaxVersions :
          Idle /\ RestoreVersion(u, nid, vid) /\ Bounded(MaxNotes, MaxVersions)
    \/ Respond

Spec == Init /\ [][Next]_vars

\* one tenant, a longer version history
NextNote ==
    \/ \E d \in CreatePayloads :
          Idle /\ CreateNote("A", d, "ok") /\ Bounded(MaxOwn, MaxHistory)
    \/ \E pk \in 1..MaxOwn :
          Idle /\ GetNote("A", pk) /\ Bounded(MaxOwn, MaxHistory)
    \/ \E pk \in 1..MaxOwn, d \in EditPayloads :
          Idle /\ UpdateNote("A", pk, d, "ok") /\ Bounded(MaxOwn, MaxHistory)
    \/ \E pk \in 1..MaxOwn :
          Idle /\ DeleteNote("A", pk) /\ Bounded(MaxOwn, MaxHistory)
    \/ \E nid \in 0..MaxOwn, d \in DraftPayloads :
          Idle /\ SaveDraft("A", nid, d) /\ Bounded(MaxOwn, MaxHistory)
    \/ \E nid \in 1..MaxOwn :
          Idle /\ ListVersions("A", nid) /\ Bounded(MaxOwn, MaxHistory)
    \/ \E nid \in 1..MaxOwn, vid \in 1..MaxHistory :
          Idle /\ RestoreVersion("A", nid, vid) /\ Bounded(MaxOwn, MaxHistory)
    \/ Idle /\ GetReminders("A") /\ Bounded(MaxOwn, MaxHistory)
    \/ Respond

SpecNote == Init /\ [][NextNote]_vars

\* concurrent draft saves and restores of one tenant on the notes made so far
AllIdle == \A p \in Procs : procs[p].pc = "idle"
NextRace ==
    \/ \E d \in CreatePayloads :
          Idle /\ AllIdle /\ CreateNote("A", d, "ok") /\ Bounded(MaxOwn, MaxVersions)
    \/ Respond
    \/ \E p \in Procs, nid \in 1..MaxOwn, d \in RaceDrafts :
          Idle /\ DraftLoad(p, "A", nid, d)
    \/ \E p \in Procs : Idle /\ DraftCount(p)
    \/ \E p \in Procs : Idle /\ DraftCreate(p) /\ Bounded(MaxOwn, MaxVersions)
    \/ \E p \in Procs, nid \in 1..MaxOwn, vid \in 1..MaxVersions :
          Idle /\ RestoreLoad(p, "A", nid, vid)
    \/ \E p \in Procs : Idle /\ RestoreSave(p)
    \/ \E p \in Procs : Idle /\ RestoreCount(p)
    \/ \E p \in Procs : Idle /\ RestoreCreate(p) /\ Bounded(MaxOwn, MaxVersions)
    \/ \E p \in Procs : Idle /\ Finish(p)

SpecRace == Init /\ [][NextRace]_vars

\* concurrent updates and restores of one tenant, after drafts saved one by one
NextPut ==
    \/ \E d \in CreatePayloads :
          Idle /\ AllIdle /\ CreateNote("A", d, "ok") /\ Bounded(MaxOwn, MaxVersions)
    \/ \E nid \in 1..MaxOwn, d \in RaceDrafts :
          Idle /\ AllIdle /\ SaveDraft("A", nid, d) /\ Bounded(MaxOwn, MaxVersions - 1)
    \/ Respond
    \/ \E p \in Procs, nid \in 1..MaxOwn, d \in EditPayloads :
          Idle /\ PutLoad(p, "A", nid, d)
    \/ \E p \in Procs : Idle /\ PutSave(p)
    \/ \E p \in Procs, nid \in 1..MaxOwn, vid \in 1..MaxVersions :
          Idle /\ RestoreLoad(p, "A", nid, vid)
    \/ \E p \in Procs : Idle /\ RestoreSave(p)
    \/ \E p \in Procs : Idle /\ RestoreCount(p)
    \/ \E p \in Procs : Idle /\ RestoreCreate(p) /\ Bounded(MaxOwn, MaxVersions)
    \/ \E p \in Procs : Idle /\ Finish(p)

SpecPut == Init /\ [][NextPut]_vars

\* one tenant's creates and updates, the summarizer answering or failing
NextSum ==
    \/ \E d \in CreatePayloads, o \in Outcomes :
          Idle /\ CreateNote("A", d, o) /\ Bounded(MaxOwn, 0)
    \/ \E pk \in NoteIds, d \in SummaryUpdates, o \in Outcomes :
          Idle /\ UpdateNote("A", pk, d, o) /\ Bounded(MaxOwn, 0)
    \/ \E pk \in NoteIds :
          Idle /\ DeleteNote("A", pk) /\ Bounded(MaxOwn, 0)
    \/ Respond

SpecSum == Init /\ [][NextSum]_vars

\* two tenants: notes, versions and the three ways to delete
NextBulk ==
    \/ \E u \in Users, d \in CreatePayloads :
          Idle /\ CreateNote(u, d, "ok") /\ Bounded(MaxNotes, MaxVersions)
    \/ \E u \in Users, nid \in NoteIds, d \in TenantDrafts :
          Idle /\ SaveDraft(u, nid, d) /\ Bounded(MaxNotes, MaxVersions)
    \/ \E u \in Users, nid \in NoteIds, vid \in 1..MaxVersions :
          Idle /\ RestoreVersion(u, nid, vid) /\ Bounded(MaxNotes, MaxVersions)
    \/ \E u \in Users, pk \in NoteIds :
          Idle /\ DeleteNote(u, pk) /\ Bounded(MaxNotes, MaxVersions)
    \/ \E u \in Users, q \in BulkCategories :
          Idle /\ DeleteByCategory(u, q) /\ Bounded(MaxNotes, MaxVersions)
    \/ \E u \in Users, t \in BulkTags :
          Idle /\ DeleteByTag(u, t) /\ Bounded(MaxNotes, MaxVersions)
    \/ \E u \in Users, q \in BulkCategories :
          Idle /\ SearchByCategory(u, q) /\ Bounded(MaxNotes, MaxVersions)
    \/ Respond

SpecBulk == Init /\ [][NextBulk]_vars

\* one tenant, one long version history, the clock not always moving on
TiesWithin(maxTies) ==
    Cardinality(DOMAIN versions')
        - Cardinality({versions'[v].created_at : v \in DOMAIN versions'}) <= maxTies
NextList ==
    \/ \E d \in ListCreates :
          Idle /\ CreateNote("A", d, "ok") /\ Bounded(MaxOwn, MaxLog)
    \/ \E nid \in 1..MaxOwn, d \in RaceDrafts :
          Idle /\ SaveDraft("A", nid, d) /\ Bounded(MaxOwn, MaxLog) /\ TiesWithin(MaxTies)
    \/ \E nid \in 1..MaxOwn :
          Idle /\ ListVersions("A", nid) /\ Bounded(MaxOwn, MaxLog)
    \/ Respond
    \/ RespondSameInstant

SpecList == Init /\ [][NextList]_vars

\* concurrent creates of two tenants, the category resolved query by query
NextCat ==
    \/ \E p \in Procs, u \in Users, d \in CreatePayloads :
          Idle /\ CategoryGet(p, u, d)
    \/ \E p \in Procs : Idle /\ CategoryCreate(p) /\ lastCatId' <= MaxCats
    \/ \E p \in Procs : Idle /\ NoteCreate(p) /\ Bounded(MaxNotes, 0)
    \/ \E p \in Procs : Idle /\ Finish(p)

SpecCat == Init /\ [][NextCat]_vars

\* the reminder-email task over the days, any of its sends failing
NextMail ==
    \/ \E u \in Users, d \in ReminderPayloads :
          Idle /\ CreateNote(u, d, "ok") /\ Bounded(MaxNotes, 0)
    \/ \E failing \in SUBSET DueToday : Idle /\ SendEmail(failing)
    \/ Tick
    \/ Respond

SpecMail == Init /\ [][NextMail]_vars

\* the reminder classifier over the days
NextRem ==
    \/ \E u \in Users, d \in ReminderPayloads :
          Idle /\ CreateNote(u, d, "ok") /\ Bounded(MaxNotes, 0)
    \/ \E u \in Users : Idle /\ GetReminders(u)
    \/ Tick
    \/ Respond

SpecRem == Init /\ [][NextRem]_vars

\* ------------------------------------------------------------------ claims
\* the ids of the rows of a response's list
IdsOf(rows) == {rows[i].id : i \in DOMAIN rows}

\* the step is a successful request of the kind, on note n
ContentChangingUpdate(n) ==
    /\ req'.op = "put" /\ req'.pk = n /\ resp'.status = 200
    /\ n \in DOMAIN notes
    /\ notes'[n].content # notes[n].content
DraftSaved(n) == req'.op = "draft" /\ req'.pk = n /\ resp'.status = 201
Restored(n) == req'.op = "restore" /\ req'.pk = n /\ resp'.status = 200

\* C1: a note's number of version rows is the number of its successful
\* content-changing updates plus its draft saves plus its restores; creation
\* adds none.  Step by step: a new note has no version, and every step adds
\* one version to a note exactly when it is one of these three requests on it.
C1_VersionCountFollowsEdits ==
    [][\A n \in DOMAIN notes' :
          VersionCount(versions', n) =
              (IF n \in DOMAIN notes THEN VersionCount(versions, n) ELSE 0)
              + (IF ContentChangingUpdate(n) \/ DraftSaved(n) \/ Restored(n) THEN 1 ELSE 0)
      ]_vars

\* C2: after a successful restore of version V, the version appended by the
\* restore has every versionable field equal to V's.
C2_RestoreVersionEqualsRestored ==
    (req.op = "restore" /\ resp.status = 200) =>
        \A f \in VersionableFields : versions[lastVersionId][f] = versions[req.vid][f]

\* C3: a successful restore of version V onto note N leaves each versionable
\* field of N equal to V's, for a draft V as for any other, and N keeps its
\* id and its owner.
C3_RestoreCopiesVersionOntoNote ==
    [][(req'.op = "restore" /\ resp'.status = 200) =>
          /\ req'.pk \in DOMAIN notes
          /\ DOMAIN notes' = DOMAIN notes
          /\ \A f \in VersionableFields : notes'[req'.pk][f] = versions[req'.vid][f]
          /\ notes'[req'.pk].owner = notes[req'.pk].owner
      ]_vars
\* a draft that differs from the note in every overlaid field has been restored
C3_Witness ==
    /\ req.op = "restore" /\ resp.status = 200
    /\ versions[req.vid].is_draft
    /\ notes[req.pk].title = "t2" /\ notes[req.pk].is_favorite

\* C4: a draft save changes no field of any note, whatever the payload; it
\* adds one version row and nothing else.
C4_DraftLeavesNoteUntouched ==
    [][req'.op = "draft" =>
          /\ notes' = notes
          /\ categories' = categories
          /\ IF resp'.status = 201
             THEN /\ DOMAIN versions' = DOMAIN versions \cup {lastVersionId'}
                  /\ lastVersionId' \notin DOMAIN versions
                  /\ \A v \in DOMAIN versions : versions'[v] = versions[v]
             ELSE versions' = versions
      ]_vars
\* a draft whose payload overlays the title has been saved
C4_Witness ==
    /\ req.op = "draft" /\ resp.status = 201
    /\ "title" \in DOMAIN req.data
    /\ notes[req.pk].title # req.data.title

\* C5: no two version rows of a note carry the same version_number, under
\* every interleaving of the version-creating requests.
C5_VersionNumbersUnique ==
    \A v \in DOMAIN versions, w \in DOMAIN versions :
        (v # w /\ versions[v].note = versions[w].note) =>
            versions[v].version_number # versions[w].version_number
\* two requests computed the same number: one stored its row, the other failed
C5_Witness ==
    /\ \E p \in Procs : procs[p].pc = "done" /\ procs[p].status = 500
    /\ versions # <<>>

\* C6: the four reminder buckets are pairwise disjoint, list no note twice,
\* and together hold exactly the requester's notes that have a reminder date.
C6_BucketsPartitionReminders ==
    req.op = "reminders" =>
        LET b == resp.data
            all == <<b.todays, b.tomorrows, b.overdues, b.scheduleds>>
        IN /\ \A i \in 1..4, j \in 1..4 : i # j => IdsOf(all[i]) \cap IdsOf(all[j]) = {}
           /\ \A i \in 1..4 : Cardinality(IdsOf(all[i])) = Len(all[i])
           /\ UNION {IdsOf(all[i]) : i \in 1..4} =
                 {n \in DOMAIN notes :
                     notes[n].owner = req.user /\ notes[n].reminder_date # None}
\* two buckets are filled at once
C6_Witness ==
    /\ req.op = "reminders"
    /\ resp.data.overdues # <<>>
    /\ resp.data.todays # <<>>

\* C7: a note with a reminder date is in today iff the date is the reference
\* date, in tomorrow iff it is the day after, in overdue iff it is earlier,
\* and in scheduled iff it is later than the day after.
C7_BucketsFollowDates ==
    req.op = "reminders" =>
        \A n \in DOMAIN notes :
            (notes[n].owner = req.user /\ notes[n].reminder_date # None) =>
                /\ n \in IdsOf(resp.data.todays) <=> notes[n].reminder_date = today
                /\ n \in IdsOf(resp.data.tomorrows) <=> notes[n].reminder_date = today + 1
                /\ n \in IdsOf(resp.data.overdues) <=> notes[n].reminder_date < today
                /\ n \in IdsOf(resp.data.scheduleds) <=> notes[n].reminder_date > today + 1
\* one note is due tomorrow and another later
C7_Witness ==
    /\ req.op = "reminders"
    /\ resp.data.tomorrows # <<>>
    /\ resp.data.scheduleds # <<>>

\* C8: the owner's GET of a note answers 200 with the stored row; GET, PUT,
\* DELETE, draft save and version list by anyone else answer the 404 of an id
\* that does not exist and change no note and no version.
C8_OnlyOwnerReachesNote ==
    [][(req'.op \in {"get", "put", "delete", "draft", "versions"} /\ req'.pk # 0) =>
          IF req'.pk \in DOMAIN notes /\ notes[req'.pk].owner = req'.user
          THEN req'.op = "get" =>
                  resp' = Response(200, "success", <<NoteData(req'.pk, notes[req'.pk])>>)
          ELSE /\ resp' = NoteNotFound
               /\ notes' = notes
               /\ versions' = versions
      ]_vars
\* another tenant tried to delete an existing note
C8_Witness ==
    /\ req.op = "delete"
    /\ req.pk \in DOMAIN notes
    /\ notes[req.pk].owner # req.user
    /\ resp = NoteNotFound

\* C9: a restore answers the same 404 and changes no note and no version
\* when the version does not exist, belongs to another note than the one
\* named, or belongs to a note of another user.
C9_RestoreOfForeignVersionNotFound ==
    [][(/\ req'.op = "restore"
        /\ \/ req'.vid \notin DOMAIN versions
           \/ versions[req'.vid].note # req'.pk
           \/ notes[versions[req'.vid].note].owner # req'.user) =>
          /\ resp' = VersionNotFound
          /\ notes' = notes
          /\ versions' = versions
      ]_vars
\* the requester owns the note named, the version is of another note
C9_Witness ==
    /\ req.op = "restore"
    /\ resp = VersionNotFound
    /\ req.vid \in DOMAIN versions
    /\ versions[req.vid].note # req.pk
    /\ req.pk \in DOMAIN notes
    /\ notes[req.pk].owner = req.user

\* C10: the category of a note, when set, belongs to the owner of the note.
C10_CategoryOwnedByNoteOwner ==
    \A n \in DOMAIN notes :
        notes[n].category # None =>
            /\ notes[n].category \in DOMAIN categories
            /\ categories[notes[n].category].owner = notes[n].owner

\* the step is a create or an update answered with a ValidationError
Rejected == req'.op \in {"create", "put"} /\ resp'.status = 400

\* C11: a create or update rejected with a ValidationError is never partially
\* applied: the Note, Category and NoteVersion rows afterwards are the rows
\* before the request.
C11_RejectedRequestChangesNothing ==
    [][Rejected =>
          /\ notes' = notes
          /\ categories' = categories
          /\ versions' = versions
      ]_vars

\* C12: create and update answer 400 to a reminder_date earlier than the
\* server's date and persist nothing; a reminder_date of the server's date, a
\* later one, and none at all pass the validation of the field.
C12_PastReminderDateRejected ==
    [][(req'.op \in {"create", "put"} /\ resp'.status # 404) =>
          LET date == DictGet(req'.data, "reminder_date", None)
          IN IF date # None /\ date < today
             THEN /\ resp'.status = 400
                  /\ "reminder_date" \in resp'.data
                  /\ notes' = notes
                  /\ categories' = categories
                  /\ versions' = versions
             ELSE resp'.status = 400 => "reminder_date" \notin resp'.data
      ]_vars

\* the strings the summarizer returns in place of a summary
Placeholders == {Placeholder(o) : o \in Failures}

\* the note a create or update request wrote
Written == IF req'.op = "create" THEN lastNoteId' ELSE req'.pk

\* C13: when the summarizer fails during a create or a content-changing
\* update, whatever the failure, the request still succeeds, the note is
\* written with the new content, and the stored summary is a placeholder.
C13_SummarizerFailureKeepsWrite ==
    [][(/\ req'.op \in {"create", "put"}
        /\ summaryCalls' # <<>>
        /\ summaryCalls'[1].outcome \in Failures) =>
          /\ resp'.status = IF req'.op = "create" THEN 201 ELSE 200
          /\ Written \in DOMAIN notes'
          /\ notes'[Written].content = req'.data.content
          /\ notes'[Written].content = summaryCalls'[1].content
          /\ notes'[Written].summary \in Placeholders
      ]_vars
\* an update that changed the content while the service timed out
C13_Witness ==
    /\ req.op = "put" /\ resp.status = 200
    /\ summaryCalls # <<>>
    /\ summaryCalls[1].outcome = "request"
    /\ notes[req.pk].content = "c2"
    /\ notes[req.pk].summary \in Placeholders

C15_CreateAddsNoVersion ==
    [][/\ (req'.op = "create" /\ resp'.status = 201) =>
             /\ lastNoteId' \in DOMAIN notes' \ DOMAIN notes
             /\ versions' = versions
             /\ \A v \in DOMAIN versions' : versions'[v].note # lastNoteId'
       /\ \A n \in DOMAIN notes' :
             (/\ \A v \in DOMAIN versions : versions[v].note # n
              /\ \E v \in DOMAIN versions' : versions'[v].note = n) =>
                 /\ req'.op \in {"draft", "restore", "put"}
                 /\ req'.pk = n
      ]_vars
\* a second note has been created while the first has a version
C15_Witness ==
    /\ req.op = "create" /\ resp.status = 201
    /\ versions # <<>>
    /\ \A v \in DOMAIN versions : versions[v].note # lastNoteId

\* C16: in every reachable state the version numbers of a note's versions
\* are exactly 1..n, n the number of its versions, and grow in the order the
\* rows were created: no gap, no repeat, the first version has number 1.
C16_VersionNumbersGapless ==
    \A n \in {versions[v].note : v \in DOMAIN versions} :
        LET vs == {v \in DOMAIN versions : versions[v].note = n}
        IN /\ {versions[v].version_number : v \in vs} = 1..Cardinality(vs)
           /\ \A v \in vs, w \in vs :
                 v < w => versions[v].version_number < versions[w].version_number
\* a note's second version was written by a restore while another request on
\* the note failed
C16_Witness ==
    /\ \E v \in DOMAIN versions : versions[v].version_number = 2 /\ ~versions[v].is_draft
    /\ \E p \in Procs : procs[p].pc = "done" /\ procs[p].status = 500

\* C17: when two concurrent version-creating requests on a note compute the
\* same version_number, the loser is retried with a fresh number, so with
\* exactly two contenders both end with their row stored.  When one request
\* has stored the only row there is, no other request has ended in a
\* collision with it.
C17_CollisionLoserRetried ==
    \A p \in Procs, q \in Procs :
        (/\ p # q
         /\ procs[p].pc = "done" /\ procs[p].status \in {200, 201}
         /\ procs[q].pc = "done"
         /\ lastVersionId = 1) =>
            procs[q].status # 500

\* C18: the version log is append-only: no step changes a field of a version
\* row, a row leaves the table only in the step that deletes its note, and a
\* restore adds exactly one row and leaves every earlier row, the restored
\* one included, as it was.
C18_VersionLogAppendOnly ==
    [][/\ \A v \in DOMAIN versions :
             IF v \in DOMAIN versions'
             THEN versions'[v] = versions[v]
             ELSE /\ versions[v].note \in DOMAIN notes \ DOMAIN notes'
                  /\ req'.op = "delete" /\ req'.pk = versions[v].note
       /\ (req'.op = "restore" /\ resp'.status = 200) =>
             /\ DOMAIN versions \subseteq DOMAIN versions'
             /\ Cardinality(DOMAIN versions') = Cardinality(DOMAIN versions) + 1
             /\ req'.vid \in DOMAIN versions
      ]_vars
\* a draft has been restored and is still in the log, before the row of the
\* restore
C18_Witness ==
    /\ req.op = "restore" /\ resp.status = 200
    /\ req.vid \in DOMAIN versions
    /\ versions[req.vid].is_draft
    /\ \E w \in DOMAIN versions : w > req.vid /\ ~versions[w].is_draft

\* C19: deleting a note, alone or in a bulk delete by tag or by category,
\* removes all its versions: in every reachable state each version row
\* refers to a note that exists.
C19_VersionsReferToNotes ==
    \A v \in DOMAIN versions : versions[v].note \in DOMAIN notes
\* a bulk delete by category has removed a note together with its versions
C19_Witness ==
    /\ req.op = "delete_category" /\ resp.status = 204
    /\ lastVersionId > Cardinality(DOMAIN versions)

\* the key of the draft payload that carries a versionable field
PayloadKey(f) == IF f = "category" THEN "category_id" ELSE f

\* C20: the version a draft save writes is flagged is_draft and has, for
\* each versionable field, the payload's value when the payload carries the
\* field and the live note's current value otherwise, never the value of an
\* earlier draft or version.
C20_DraftOverlaysLiveNote ==
    [][(req'.op = "draft" /\ resp'.status = 201) =>
          LET n == req'.pk
              d == req'.data
              row == versions'[lastVersionId']
          IN /\ lastVersionId' \notin DOMAIN versions
             /\ row.note = n
             /\ row.is_draft
             /\ \A f \in VersionableFields :
                   row[f] = IF PayloadKey(f) \in DOMAIN d
                            THEN d[PayloadKey(f)]
                            ELSE notes[n][f]
      ]_vars
\* a draft without a title was saved after a draft with another title
C20_Witness ==
    /\ req.op = "draft" /\ resp.status = 201
    /\ "title" \notin DOMAIN req.data
    /\ versions[lastVersionId].title = notes[req.pk].title
    /\ \E v \in DOMAIN versions :
          /\ v < lastVersionId
          /\ versions[v].note = req.pk
          /\ versions[v].title # notes[req.pk].title

\* row a comes before row b in the version list: it is newer, or as new and
\* of the higher version number
ListedBefore(a, b) ==
    \/ a.created_at > b.created_at
    \/ a.created_at = b.created_at /\ a.version_number > b.version_number

\* C21: the version list of a note with n versions holds min(n, 20) rows of
\* that note, the most recently created ones, newest first by created_at
\* and, among rows of equal created_at, by version_number descending; the
\* request changes no table.
C21_ListNewestFirst ==
    [][req'.op = "versions" =>
          /\ db' = db
          /\ resp'.status = 200 =>
                LET rows == resp'.data
                    mine == {v \in DOMAIN versions : versions[v].note = req'.pk}
                    n == Cardinality(mine)
                    listed == {rows[i].id : i \in DOMAIN rows}
                IN /\ Len(rows) = IF n < HistoryLimit THEN n ELSE HistoryLimit
                   /\ Cardinality(listed) = Len(rows)
                   /\ listed \subseteq mine
                   /\ \A i \in DOMAIN rows : rows[i] = VersionData(rows[i].id, versions[rows[i].id])
                   /\ \A i \in DOMAIN rows, j \in DOMAIN rows :
                         i < j => ListedBefore(rows[i], rows[j])
                   /\ \A i \in DOMAIN rows, v \in mine \ listed :
                         ListedBefore(rows[i], versions[v])
      ]_vars

\* C22: one run of the reminder-email task attempts exactly one send for
\* every note whose reminder_date is the current date and none for any other
\* note, whichever of the sends fail; the run ends without raising and
\* changes no note.
C22_SweepAttemptsEveryDueNote ==
    [][sweep' # sweep =>
          /\ db' = db
          /\ sweep'.ran
          /\ ~sweep'.raised
          /\ \A i \in DOMAIN sweep'.log : sweep'.log[i].note \in DOMAIN notes
          /\ \A n \in DOMAIN notes :
                Cardinality({i \in DOMAIN sweep'.log : sweep'.log[i].note = n}) =
                    IF notes[n].reminder_date = today THEN 1 ELSE 0
      ]_vars
\* the first send of a run failed and the second was attempted and went out
C22_Witness ==
    /\ sweep.ran
    /\ Len(sweep.log) = 2
    /\ ~sweep.log[1].sent
    /\ sweep.log[2].sent

\* C23: no request deletes or returns a note of another owner than the
\* requester: the notes a delete, a bulk delete by tag or a bulk delete by
\* category removes, and the notes a search by category lists, are owned by
\* the user who sent the request.
C23_OnlyOwnNotesDeletedOrListed ==
    [][/\ \A n \in DOMAIN notes \ DOMAIN notes' : notes[n].owner = req'.user
       /\ req'.op = "search_category" =>
             \A i \in DOMAIN resp'.data : resp'.data[i].owner = req'.user
      ]_vars

\* C24: restore is all-or-nothing: when the insert of the version that
\* follows a restore fails because a draft saved meanwhile holds the same
\* version_number, the note's fields are those the restore request found.
RestoreFailsOnDraft(p) ==
    /\ procs[p].pc = "restore_create"
    /\ procs'[p] = Done(500)
    /\ \E v \in DOMAIN versions :
          /\ versions[v].note = procs[p].nid
          /\ versions[v].version_number = procs[p].next_version
          /\ versions[v].is_draft
C24_RestoreAllOrNothing ==
    [][\A p \in Procs :
          RestoreFailsOnDraft(p) => notes'[procs[p].nid] = procs[p].before]_vars

\* C25: a note's summary is derived, never chosen by the client: the stored
\* summary of every note is the empty string, the summarizer's result for a
\* content, or a placeholder, whatever a request payload said.
Derived == {""} \cup {SummaryOf(c) : c \in {"c1", "c2"}} \cup Placeholders
C25_SummaryIsDerived ==
    \A n \in DOMAIN notes : notes[n].summary \in Derived

\* C26: no update is lost: when a PUT is saved, every field its payload does
\* not name keeps the value the database holds at that moment, whether a
\* concurrent PUT or a concurrent restore wrote it.
NoteFields == {"title", "content", "tags", "category", "reminder_date", "is_favorite"}
C26_NoLostUpdate ==
    [][\A p \in Procs :
          (procs[p].pc = "put_save" /\ procs'[p].pc = "done") =>
              \A f \in NoteFields \ DOMAIN procs[p].data :
                  notes'[procs[p].nid][f] = notes[procs[p].nid][f]]_vars

\* C27: category resolution is an idempotent get-or-create on the trimmed,
\* lower-cased name: whatever the interleaving of requests, the Category
\* table holds at most one row per (normalized name, owner).
C27_OneCategoryPerNameAndOwner ==
    \A c, d \in DOMAIN categories :
        (categories[c].name = categories[d].name
            /\ categories[c].owner = categories[d].owner) => c = d

\* C28: a bulk delete by tag or by category ends in a defined outcome: when
\* notes match, all of them are deleted and the answer is 204; when none
\* matches, the answer is 404 and no table changes.
BulkMatches ==
    IF req'.op = "delete_tag"
    THEN NotesOfTag(req'.user, req'.data.tag)
    ELSE NotesOfCategory(req'.user, req'.data.category)
C28_BulkDeleteDefinedOutcome ==
    [][req'.op \in {"delete_tag", "delete_category"} =>
          IF BulkMatches # {}
          THEN resp'.status = 204 /\ DOMAIN notes' = DOMAIN notes \ BulkMatches
          ELSE resp'.status = 404 /\ db' = db]_vars

====
